---- MODULE Spec2Model ----
(***************************************************************************)
(* png2stencil: binarise a PNG mask, split it into 4-connected components  *)
(* and fill every component with non-overlapping tool circles taken from a *)
(* shifted triangular or square lattice (src/png2stencil.go).              *)
(*                                                                         *)
(* Lengths.  The program computes in float64 millimetres.  The model       *)
(* computes in exact arithmetic: a length is an integer number of ticks,   *)
(* Mm ticks to the millimetre, and the inputs are chosen so that every     *)
(* quotient the program forms (pxSize / n, toolDiameter / 2,               *)
(* toolDiameter / shiftN) is a whole number of ticks.  The only other      *)
(* numbers that occur are the x coordinates of the triangular lattice,     *)
(* ox + i * dy * 1.73205080757; such a number is kept as a pair <<a, b>>   *)
(* that stands for a + b * 1.73205080757, and is compared exactly.         *)
(* Rounding of float64 is not modelled.                                    *)
(***************************************************************************)
EXTENDS Integers, Sequences, FiniteSets, TLC

VARIABLES
    pxSize,        \* flag --px_size, in ticks
    toolDiameter,  \* flag --tool_diameter, in ticks
    n,             \* flag --n
    background,    \* flag --background
    img,           \* the decoded input image "in": [W, H, At], At[y][x] a colour
    base,          \* the gray image: [Dx, Dy, Pix]
    pc,            \* where main is
    curX, curY,    \* main's scan position
    bbox,          \* main: bbox of the component being searched
    best,          \* main: best list of the component so far
    shiftI, shiftJ,\* main: the loop variables i and j of the offset search
    res,           \* main: the result
    trial,         \* history: the two lists the last pass of the inner loop handed to try
    oob,           \* history: some checkCircle call read outside its row or the buffer
    found,         \* history: the cells main started a flood fill from, in order
    won,           \* history: the list appended to res for each of them
    probe          \* the comparison of two values of shiftN: [a, b, outA, outB]

vars == <<pxSize, toolDiameter, n, background, img, base, pc, curX, curY, bbox,
          best, shiftI, shiftJ, res, trial, oob, found, won, probe>>

\* ---------------------------------------------------------------- labels
Background == 0
InComponent == 1
Claimed == 254
Foreground == 255

\* main: shiftN := 32
shiftN == 32

\* ticks per millimetre: toolDiameter / shiftN is a whole number of ticks for
\* shiftN = 32 and for every shiftN up to 6
Mm == 128 * 15

\* ------------------------------------------------ exact a + b * 1.73205080757
\* fillTriangle: dx := dy * 1.73205080757, the literal split in two limbs of
\* six decimal digits: 1.73205080757 * 10^11 = Sqrt3Hi * 10^6 + Sqrt3Lo
Sqrt3Hi == 173205
Sqrt3Lo == 80757
Limb == 10 ^ 6
HalfLimb == 10 ^ 5

\* b * 1.73205080757 * 10^11 = ScaledHi(b) * Limb + ScaledLo(b), 0 <= ScaledLo(b) < Limb
ScaledHi(b) == b * Sqrt3Hi + ((b * Sqrt3Lo) \div Limb)
ScaledLo(b) == (b * Sqrt3Lo) % Limb

R(a) == <<a, 0>>
Plus(x, c) == <<x[1] + c, x[2]>>

\* x >= c, x > c, x < c, x <= c for x = <<a, b>> and an integer c
Geq(x, c) == ScaledHi(x[2]) >= (c - x[1]) * HalfLimb
Gt(x, c) ==
    \/ ScaledHi(x[2]) > (c - x[1]) * HalfLimb
    \/ ScaledHi(x[2]) = (c - x[1]) * HalfLimb /\ ScaledLo(x[2]) > 0
Lt(x, c) == ~Geq(x, c)
Leq(x, c) == ~Gt(x, c)

\* int(v / q) of Go for 0 <= v <= top * q, q > 0
Trunc(v, q, top) == CHOOSE k \in 0..top : Geq(v, k * q) /\ Lt(v, (k + 1) * q)

\* ------------------------------------------------------------- the image
\* image.Gray: Pix is indexed from 0, Stride = Dx
Stride(base_) == base_.Dx
PixLen(base_) == base_.Dx * base_.Dy

\* func inside(cx, cy, r, x, y float64) bool.  cx and x are pairs <<a, b>>; in
\* every call the program makes x = (cx - r) + k * pxSize, so the two b parts
\* are equal and x - cx is the whole number x[1] - cx[1]
inside(cx, cy, r, x, y) ==
    (x[1] - cx[1]) * (x[1] - cx[1]) + (y - cy) * (y - cy) <= r * r

\* checkCircle, lines 265-278: the two loops from cell (cx, cy) on.  The result
\* is the returned bool ("fit" / "miss") or the run-time panic of an index
\* past the end of Pix; oob records that a read left the row of cy (cx >= Dx)
\* or the buffer.
RECURSIVE circleLoop(_, _, _, _, _, _, _, _, _, _)
circleLoop(base_, level, pxSz, x, y, r, win, cy, cx, far) ==
    IF cy > win.y1 THEN [out |-> "fit", oob |-> far]
    ELSE IF cx > win.x1
        THEN circleLoop(base_, level, pxSz, x, y, r, win, cy + 1, win.x0, far)
    ELSE IF ~inside(x, y, r, Plus(x, (cx - win.x0) * pxSz - r),
                    (y - r) + (cy - win.y0) * pxSz)
        THEN circleLoop(base_, level, pxSz, x, y, r, win, cy, cx + 1, far)
    ELSE LET i0 == cy * Stride(base_) IN
        IF i0 + cx >= PixLen(base_) THEN [out |-> "panic", oob |-> TRUE]
        ELSE IF base_.Pix[i0 + cx] # level
            THEN [out |-> "miss", oob |-> far \/ cx >= base_.Dx]
        ELSE circleLoop(base_, level, pxSz, x, y, r, win, cy, cx + 1,
                        far \/ cx >= base_.Dx)

\* func checkCircle(base *image.Gray, level byte, pxSize, x, y, r float64) bool
checkCircle(base_, level, pxSz, x, y, r) ==
    LET width == base_.Dx * pxSz
        height == base_.Dy * pxSz
    IN  IF Lt(x, r) \/ Gt(x, width - r) \/ y < r \/ y > height - r
        THEN [out |-> "miss", oob |-> FALSE]
        ELSE LET win == [x0 |-> Trunc(Plus(x, -r), pxSz, base_.Dx),
                         y0 |-> (y - r) \div pxSz,
                         x1 |-> Trunc(Plus(x, r), pxSz, base_.Dx),
                         y1 |-> (y + r) \div pxSz]
             IN  circleLoop(base_, level, pxSz, x, y, r, win, win.y0, win.x0, FALSE)

\* ------------------------------------------------------------- floodFill
\* floodTry without the test for the background: every cell that does not
\* carry level already is taken
floodTryAnyLabel(st, level, j, stride) ==
    IF st.Pix[j] # level
    THEN LET x == j % stride
             y == j \div stride
         IN  [Pix |-> [st.Pix EXCEPT ![j] = level],
              pix |-> Append(st.pix, j),
              bbox |-> [MinX |-> IF x < st.bbox.MinX THEN x ELSE st.bbox.MinX,
                        MaxX |-> IF x > st.bbox.MaxX THEN x ELSE st.bbox.MaxX,
                        MinY |-> IF y < st.bbox.MinY THEN y ELSE st.bbox.MinY,
                        MaxY |-> IF y > st.bbox.MaxY THEN y ELSE st.bbox.MaxY]]
    ELSE st

\* the closure try of floodFill, lines 292-311; st = [Pix, pix, bbox]
floodTry(st, level, j, stride) ==
    IF st.Pix[j] # Background /\ st.Pix[j] # Claimed /\ st.Pix[j] # level
    THEN LET x == j % stride
             y == j \div stride
         IN  [Pix |-> [st.Pix EXCEPT ![j] = level],
              pix |-> Append(st.pix, j),
              bbox |-> [MinX |-> IF x < st.bbox.MinX THEN x ELSE st.bbox.MinX,
                        MaxX |-> IF x > st.bbox.MaxX THEN x ELSE st.bbox.MaxX,
                        MinY |-> IF y < st.bbox.MinY THEN y ELSE st.bbox.MinY,
                        MaxY |-> IF y > st.bbox.MaxY THEN y ELSE st.bbox.MaxY]]
    ELSE st

\* the body of "for _, i := range cur", lines 313-325
floodVisit(st, level, i, stride, dy) ==
    LET s1 == IF i % stride # 0 THEN floodTry(st, level, i - 1, stride) ELSE st
        s2 == IF i % stride # stride - 1 THEN floodTry(s1, level, i + 1, stride) ELSE s1
        s3 == IF i \div stride > 0 THEN floodTry(s2, level, i - stride, stride) ELSE s2
    IN  IF i \div stride < dy - 1 THEN floodTry(s3, level, i + stride, stride) ELSE s3

RECURSIVE floodRange(_, _, _, _, _, _)
floodRange(st, level, cur, k, stride, dy) ==
    IF k > Len(cur) THEN st
    ELSE floodRange(floodVisit(st, level, cur[k], stride, dy), level, cur, k + 1, stride, dy)

\* "for len(cur) > 0", lines 290-328
RECURSIVE floodLoop(_, _, _, _, _, _)
floodLoop(Pix, box, level, cur, stride, dy) ==
    IF Len(cur) = 0 THEN [Pix |-> Pix, bbox |-> box]
    ELSE LET st == floodRange([Pix |-> Pix, pix |-> <<>>, bbox |-> box],
                              level, cur, 1, stride, dy)
         IN  floodLoop(st.Pix, st.bbox, level, st.pix, stride, dy)

\* func floodFill(base *image.Gray, level byte, x, y int) image.Rectangle:
\* the new Pix and the returned rectangle
floodFill(base_, level, x, y) ==
    floodLoop(base_.Pix, [MinX |-> x, MaxX |-> x, MinY |-> y, MaxY |-> y],
              level, <<y * Stride(base_) + x>>, Stride(base_), base_.Dy)

\* ------------------------------------------------------ lattice enumeration
\* basePxSize := *pxSize / float64(*n)
basePxSize == pxSize \div n

\* outsideBox with the upper limit one cell short
outsideBoxTight(c, lo, hi) ==
    Lt(c, (lo - 1) * basePxSize) \/ Geq(c, hi * basePxSize)

\* fillQuad and fillTriangle, lines 156, 166, 192 and 200: the coordinate c is
\* left of the cell before lo or not left of the cell after hi
outsideBox(c, lo, hi) ==
    Lt(c, (lo - 1) * basePxSize) \/ Geq(c, (hi + 1) * basePxSize)

NoCenters == [centers |-> <<>>, fault |-> "none", oob |-> FALSE]

\* what one call of checkCircle at (cx, cy) adds to the list being built
Checked(base_, level, acc, cx, cy) ==
    LET c == checkCircle(base_, level, basePxSize, cx, cy, toolDiameter \div 2)
    IN  [centers |-> IF c.out = "fit"
                     THEN Append(acc.centers, [X |-> cx, Y |-> cy])
                     ELSE acc.centers,
         fault |-> IF c.out = "panic" THEN "panic" ELSE "none",
         oob |-> acc.oob \/ c.oob]

\* fillQuad, lines 161-174: the loop over j from j on
RECURSIVE quadColumn(_, _, _, _, _, _, _)
quadColumn(base_, level, box, cx, oy, j_, acc) ==
    LET height == base_.Dy * basePxSize
        dy == toolDiameter
        cy == oy + j_ * dy
    IN  IF cy >= height THEN acc
        ELSE IF outsideBox(R(cy), box.MinY, box.MaxY)
            THEN quadColumn(base_, level, box, cx, oy, j_ + 1, acc)
        ELSE LET a == Checked(base_, level, acc, cx, cy)
             IN  IF a.fault # "none" THEN a
                 ELSE quadColumn(base_, level, box, cx, oy, j_ + 1, a)

\* fillQuad, lines 151-175: the loop over i from i on
RECURSIVE quadRows(_, _, _, _, _, _, _)
quadRows(base_, level, box, ox, oy, i_, acc) ==
    LET width == base_.Dx * basePxSize
        dx == toolDiameter
        cx == R(ox + i_ * dx)
    IN  IF Geq(cx, width) THEN acc
        ELSE IF outsideBox(cx, box.MinX, box.MaxX)
            THEN quadRows(base_, level, box, ox, oy, i_ + 1, acc)
        ELSE LET a == quadColumn(base_, level, box, cx, oy, 0, acc)
             IN  IF a.fault # "none" THEN a
                 ELSE quadRows(base_, level, box, ox, oy, i_ + 1, a)

\* a loop "for i := 0; ; i++ { c := o + i*d; if c >= limit { break } ... }"
\* never breaks when d <= 0 and o < limit
NeverBreaks(o, d, limit) == d <= 0 /\ o < limit

\* func fillQuad(base *image.Gray, level byte, bbox image.Rectangle, ox, oy float64) []Point
fillQuad(base_, level, box, ox, oy) ==
    IF NeverBreaks(ox, toolDiameter, base_.Dx * basePxSize)
    THEN [NoCenters EXCEPT !.fault = "hang"]
    ELSE quadRows(base_, level, box, ox, oy, 0, NoCenters)

\* fillTriangle, lines 195-209: the loop over j from j on
RECURSIVE triangleColumn(_, _, _, _, _, _, _, _)
triangleColumn(base_, level, box, cx, oy, i_, j_, acc) ==
    LET height == base_.Dy * basePxSize
        dy == toolDiameter \div 2
        cy == oy + j_ * dy
    IN  IF cy >= height THEN acc
        ELSE IF outsideBox(R(cy), box.MinY, box.MaxY)
            THEN triangleColumn(base_, level, box, cx, oy, i_, j_ + 1, acc)
        ELSE IF (i_ + j_) % 2 = 1
            THEN triangleColumn(base_, level, box, cx, oy, i_, j_ + 1, acc)
        ELSE LET a == Checked(base_, level, acc, cx, cy)
             IN  IF a.fault # "none" THEN a
                 ELSE triangleColumn(base_, level, box, cx, oy, i_, j_ + 1, a)

\* fillTriangle, lines 187-210: the loop over i from i on;
\* cx = ox + i * dx with dx = dy * 1.73205080757 is the pair <<ox, i * dy>>
RECURSIVE triangleRows(_, _, _, _, _, _, _)
triangleRows(base_, level, box, ox, oy, i_, acc) ==
    LET width == base_.Dx * basePxSize
        dy == toolDiameter \div 2
        cx == <<ox, i_ * dy>>
    IN  IF Geq(cx, width) THEN acc
        ELSE IF outsideBox(cx, box.MinX, box.MaxX)
            THEN triangleRows(base_, level, box, ox, oy, i_ + 1, acc)
        ELSE LET a == triangleColumn(base_, level, box, cx, oy, i_, 0, acc)
             IN  IF a.fault # "none" THEN a
                 ELSE triangleRows(base_, level, box, ox, oy, i_ + 1, a)

\* func fillTriangle(base *image.Gray, level byte, bbox image.Rectangle, ox, oy float64) []Point
fillTriangle(base_, level, box, ox, oy) ==
    IF NeverBreaks(ox, toolDiameter, base_.Dx * basePxSize)
    THEN [NoCenters EXCEPT !.fault = "hang"]
    ELSE triangleRows(base_, level, box, ox, oy, 0, NoCenters)

\* try that lets a list of the same length replace the best one
tryLater(best_, centers) == IF Len(best_) <= Len(centers) THEN centers ELSE best_

\* try that keeps whatever list came last
tryLast(best_, centers) == centers

\* main's closure try, lines 116-120
try(best_, centers) == IF Len(best_) < Len(centers) THEN centers ELSE best_

\* main, lines 115-127, for a number sN of shifts in place of 32: the passes
\* of the two loops from pass k on (i = k / sN, j = k % sN)
RECURSIVE searchFrom(_, _, _, _, _)
searchFrom(base_, box, sN, k, best_) ==
    IF k >= sN * sN THEN [best |-> best_, fault |-> "none"]
    ELSE LET shift == toolDiameter \div sN
             ox == (k \div sN) * shift
             oy == (k % sN) * shift
             t == fillTriangle(base_, InComponent, box, ox, oy)
             q == fillQuad(base_, InComponent, box, ox, oy)
         IN  IF t.fault # "none" THEN [best |-> best_, fault |-> t.fault]
             ELSE IF q.fault # "none" THEN [best |-> best_, fault |-> q.fault]
             ELSE searchFrom(base_, box, sN, k + 1,
                             try(try(best_, t.centers), q.centers))

search(base_, box, sN) == searchFrom(base_, box, sN, 0, <<>>)

\* ------------------------------------------------------------------ main
\* the inputs of a run
Colours == {"black", "white"}

\* every image of at most MaxSide by MaxSide and at most MaxCells pixels
MaxSide == 2
MaxCells == 4

Shapes == {wh \in (1..MaxSide) \X (1..MaxSide) : wh[1] * wh[2] <= MaxCells}

ImagesOf(wh) ==
    {[W |-> wh[1], H |-> wh[2], At |-> f] : f \in [(0..wh[1] - 1) \X (0..wh[2] - 1) -> Colours]}

Images == UNION {ImagesOf(wh) : wh \in Shapes}

\* --px_size, --tool_diameter, --n and --background of the runs with
\* well-formed flags
Settings ==
    {<<Mm, Mm, 1, "white">>, <<Mm, Mm, 2, "black">>, <<Mm, 2 * Mm, 1, "white">>}

\* runs with a flag that is missing, zero, negative or unknown
OddSettings ==
    {<<Mm, Mm, 1, "">>, <<Mm, Mm, 1, "red">>, <<0, Mm, 1, "white">>,
     <<Mm, 0, 1, "white">>, <<-Mm, Mm, 1, "white">>, <<Mm, -Mm, 1, "white">>,
     <<Mm, Mm, 0, "white">>}

NoSearch == [best |-> <<>>, fault |-> "none"]
NoProbe == [a |-> 0, b |-> 0, outA |-> NoSearch, outB |-> NoSearch]

StartWith(px, d, n_, bg, im, pr) ==
    /\ pxSize = px /\ toolDiameter = d /\ n = n_ /\ background = bg /\ img = im
    /\ base = [Dx |-> 0, Dy |-> 0, Pix |-> <<>>]
    /\ pc = "flags"
    /\ curX = 0 /\ curY = 0
    /\ bbox = [MinX |-> 0, MaxX |-> 0, MinY |-> 0, MaxY |-> 0]
    /\ best = <<>> /\ res = <<>>
    /\ shiftI = 0 /\ shiftJ = 0
    /\ trial = [triangle |-> <<>>, quad |-> <<>>]
    /\ oob = FALSE /\ found = <<>> /\ won = <<>>
    /\ probe = pr

Start(px, d, n_, bg, im) == StartWith(px, d, n_, bg, im, NoProbe)

Init ==
    \/ \E s \in Settings, im \in Images : Start(s[1], s[2], s[3], s[4], im)
    \/ \E s \in OddSettings, im \in Images : Start(s[1], s[2], s[3], s[4], im)

\* main, lines 52-65: checkString / checkFloat64 on the flags (the flags the
\* model does not carry are set)
CheckFlags ==
    /\ pc = "flags"
    /\ pc' = IF background = "" \/ pxSize = 0 \/ toolDiameter = 0 THEN "fatal" ELSE "colour"
    /\ UNCHANGED <<pxSize, toolDiameter, n, background, img, base, curX, curY, bbox,
                   best, shiftI, shiftJ, res, trial, oob, found, won, probe>>

\* main, lines 68-82: the input is decoded and the background colour looked up
SelectBackground ==
    /\ pc = "colour"
    /\ pc' = IF background \in {"black", "white"} THEN "raster" ELSE "fatal"
    /\ UNCHANGED <<pxSize, toolDiameter, n, background, img, base, curX, curY, bbox,
                   best, shiftI, shiftJ, res, trial, oob, found, won, probe>>

\* main, lines 87-97: base, one cell per subpixel
Raster(im, n_, bk) ==
    LET dx == im.W * n_
        dy == im.H * n_
    IN  [Dx |-> dx, Dy |-> dy,
         Pix |-> [k \in 0..(dx * dy - 1) |->
                    IF im.At[<<(k % dx) \div n_, (k \div dx) \div n_>>] = bk
                    THEN Background ELSE Foreground]]

\* main, lines 84-100: base is built and saved; png.Encode refuses an image
\* without pixels and mustSavePNG then fails
Rasterize ==
    /\ pc = "raster"
    /\ base' = Raster(img, n, background)
    /\ pc' = IF base'.Dx <= 0 \/ base'.Dy <= 0 THEN "fatal" ELSE "scan"
    /\ UNCHANGED <<pxSize, toolDiameter, n, background, img, curX, curY, bbox,
                   best, shiftI, shiftJ, res, trial, oob, found, won, probe>>

\* the next position of "for curX ... { for curY ... {": curY runs inside curX
NextCell(x, y) == IF y + 1 < base.Dy THEN <<x, y + 1>> ELSE <<x + 1, 0>>

\* main, lines 109-113: a cell that is not 255 is passed over
ScanSkip ==
    /\ pc = "scan"
    /\ curX < base.Dx
    /\ base.Pix[curY * Stride(base) + curX] # Foreground
    /\ curX' = NextCell(curX, curY)[1]
    /\ curY' = NextCell(curX, curY)[2]
    /\ UNCHANGED <<pxSize, toolDiameter, n, background, img, base, pc, bbox,
                   best, shiftI, shiftJ, res, trial, oob, found, won, probe>>

\* main, lines 111-121: a cell that is 255 starts a component
StartComponent ==
    /\ pc = "scan"
    /\ curX < base.Dx
    /\ base.Pix[curY * Stride(base) + curX] = Foreground
    /\ LET f == floodFill(base, InComponent, curX, curY)
       IN  /\ base' = [base EXCEPT !.Pix = f.Pix]
           /\ bbox' = f.bbox
    /\ best' = <<>>
    /\ shiftI' = 0 /\ shiftJ' = 0
    /\ pc' = "search"
    /\ found' = Append(found, <<curX, curY>>)
    /\ UNCHANGED <<pxSize, toolDiameter, n, background, img, curX, curY,
                   res, trial, oob, won, probe>>

\* main, lines 122-127: one pass of the inner loop, the two calls of try
Trial ==
    /\ pc = "search"
    /\ LET shift == toolDiameter \div shiftN
           t == fillTriangle(base, InComponent, bbox, shiftI * shift, shiftJ * shift)
           q == IF t.fault = "none"
                THEN fillQuad(base, InComponent, bbox, shiftI * shift, shiftJ * shift)
                ELSE [NoCenters EXCEPT !.fault = t.fault]
           last == shiftI = shiftN - 1 /\ shiftJ = shiftN - 1
       IN  /\ oob' = (oob \/ t.oob \/ q.oob)
           /\ IF q.fault # "none"
              THEN /\ pc' = q.fault
                   /\ UNCHANGED <<best, trial, shiftI, shiftJ>>
              ELSE /\ best' = try(try(best, t.centers), q.centers)
                   /\ trial' = [triangle |-> t.centers, quad |-> q.centers]
                   /\ shiftJ' = IF shiftJ + 1 < shiftN THEN shiftJ + 1 ELSE 0
                   /\ shiftI' = IF shiftJ + 1 < shiftN THEN shiftI ELSE shiftI + 1
                   /\ pc' = IF last THEN "append" ELSE "search"
    /\ UNCHANGED <<pxSize, toolDiameter, n, background, img, base, curX, curY, bbox,
                   res, found, won, probe>>

\* the best list put in front of the result
Prepended(res_, best_) == best_ \o res_

\* main, line 128: res = append(res, best...)
Appended(res_, best_) == res_ \o best_

\* main, lines 128-129: the best list is appended and the component claimed
AppendBest ==
    /\ pc = "append"
    /\ res' = Appended(res, best)
    /\ base' = [base EXCEPT !.Pix = floodFill(base, Claimed, curX, curY).Pix]
    /\ curX' = NextCell(curX, curY)[1]
    /\ curY' = NextCell(curX, curY)[2]
    /\ pc' = "scan"
    /\ won' = Append(won, best)
    /\ UNCHANGED <<pxSize, toolDiameter, n, background, img, bbox, best,
                   shiftI, shiftJ, trial, oob, found, probe>>

\* main, lines 131-141: the scan is over, the debug image is written
Finish ==
    /\ pc = "scan"
    /\ curX >= base.Dx
    /\ pc' = "done"
    /\ UNCHANGED <<pxSize, toolDiameter, n, background, img, base, curX, curY, bbox,
                   best, shiftI, shiftJ, res, trial, oob, found, won, probe>>

Next ==
    \/ CheckFlags
    \/ SelectBackground
    \/ Rasterize
    \/ ScanSkip
    \/ StartComponent
    \/ Trial
    \/ AppendBest
    \/ Finish

\* ------------------------------------------------- the claims' vocabulary
Running == pc \in {"scan", "search", "append", "done", "panic", "hang"}
Searching == pc \in {"search", "append", "panic", "hang"}

ValidFlags ==
    /\ pxSize > 0 /\ toolDiameter > 0 /\ n # 0
    /\ background \in {"black", "white"}

\* base as the rasterizer left it
Orig == Raster(img, n, background)

Cells == 0..(base.Dx * base.Dy - 1)
ColOf(k) == k % base.Dx
RowOf(k) == k \div base.Dx

\* the 4-connected component of cell k among the cells of label 255 of g
Adjacent(k, m) ==
    \/ RowOf(k) = RowOf(m) /\ (ColOf(k) - ColOf(m)) \in {-1, 1}
    \/ ColOf(k) = ColOf(m) /\ (RowOf(k) - RowOf(m)) \in {-1, 1}

RECURSIVE Grown(_, _)
Grown(g, set) ==
    LET more == {m \in Cells : g.Pix[m] = Foreground /\ \E k \in set : Adjacent(k, m)}
    IN  IF more \subseteq set THEN set ELSE Grown(g, set \cup more)

ComponentOf(g, k) == Grown(g, {k})

\* the position of a cell in the column-major and in the row-major order
ColumnKey(k) == ColOf(k) * base.Dy + RowOf(k)
RowKey(k) == k

\* exact comparison of (a + b * 1.73205080757)^2 with an integer K, by long
\* multiplication in limbs of four decimal digits
Limb4 == 10 ^ 4

Carried(l) ==
    LET d0 == l[1] % Limb4
        c0 == l[1] \div Limb4
        d1 == (l[2] + c0) % Limb4
        c1 == (l[2] + c0) \div Limb4
    IN  <<d0, d1, (l[3] + c1) % Limb4, (l[3] + c1) \div Limb4>>

\* (a + b * 1.73205080757) * 10^11, least limb first; the top limb has the sign
Scaled(a, b) ==
    Carried(<<b * (Sqrt3Lo % Limb4),
              b * ((Sqrt3Hi % 100) * 100 + Sqrt3Lo \div Limb4),
              b * (Sqrt3Hi \div 100) + a * 1000>>)

Magnitude(a, b) == IF Scaled(a, b)[4] < 0 THEN Scaled(-a, -b) ELSE Scaled(a, b)

Digit(l, k) == IF k \in 1..Len(l) THEN l[k] ELSE 0

RECURSIVE Normal(_, _, _)
Normal(l, k, carry) ==
    IF k > Len(l) THEN IF carry = 0 THEN <<>> ELSE <<carry>>
    ELSE <<(l[k] + carry) % Limb4>> \o Normal(l, k + 1, (l[k] + carry) \div Limb4)

Squared(l) ==
    Normal([k \in 1..7 |->
              LET S == {p \in (1..4) \X (1..4) : p[1] + p[2] = k + 1}
                  RECURSIVE Sum(_)
                  Sum(T) == IF T = {} THEN 0
                            ELSE LET p == CHOOSE q \in T : TRUE
                                 IN  l[p[1]] * l[p[2]] + Sum(T \ {p})
              IN  Sum(S)], 1, 0)

\* K * 10^22, least limb first, for 0 <= K
Shifted(K) ==
    <<0, 0, 0, 0, 0, (K * 100) % Limb4, ((K * 100) \div Limb4) % Limb4,
      (K * 100) \div (Limb4 * Limb4)>>

RECURSIVE Less(_, _, _)
Less(l, m, k) ==
    IF k = 0 THEN FALSE
    ELSE IF Digit(l, k) # Digit(m, k) THEN Digit(l, k) < Digit(m, k)
    ELSE Less(l, m, k - 1)

\* (a + b * 1.73205080757)^2 < K and <= K
SquareLess(a, b, K) == K > 0 /\ Less(Squared(Magnitude(a, b)), Shifted(K), 9)
SquareAtMost(a, b, K) == K >= 0 /\ ~Less(Shifted(K), Squared(Magnitude(a, b)), 9)

\* the centres of two placements are closer than dist
Closer(p, q, dist) ==
    SquareLess(p.X[1] - q.X[1], p.X[2] - q.X[2],
               dist * dist - (p.Y - q.Y) * (p.Y - q.Y))

\* the centre of cell k lies within distance rad of the centre of placement p
\* (twice the lengths, so that the centre of a cell is a whole number)
CellWithin(k, p, rad) ==
    SquareAtMost(2 * p.X[1] - (2 * ColOf(k) + 1) * basePxSize, 2 * p.X[2],
                 4 * rad * rad - (2 * p.Y - (2 * RowOf(k) + 1) * basePxSize)
                               * (2 * p.Y - (2 * RowOf(k) + 1) * basePxSize))

Spec == Init /\ [][Next]_vars

\* ------------------------------------- fillQuad at the origin of a full grid
\* a W by H image without a background pixel
MaxFull == 6

FullImage(w, h) ==
    [W |-> w, H |-> h, At |-> [xy \in (0..w - 1) \X (0..h - 1) |-> "black"]]

InitQuad ==
    \E w \in 1..MaxFull, h \in 1..MaxFull, d \in 1..MaxFull :
        Start(Mm, d * Mm, 1, "white", FullImage(w, h))

\* fillQuad(base, 1, bbox, 0, 0), the second call of the first pass of main's
\* loops, on its own
QuadAtOrigin ==
    /\ pc = "search"
    /\ LET q == fillQuad(base, InComponent, bbox, 0, 0)
       IN  /\ trial' = [triangle |-> <<>>, quad |-> q.centers]
           /\ oob' = (oob \/ q.oob)
           /\ pc' = IF q.fault # "none" THEN q.fault ELSE "probed"
    /\ UNCHANGED <<pxSize, toolDiameter, n, background, img, base, curX, curY, bbox,
                   best, shiftI, shiftJ, res, found, won, probe>>

NextQuad ==
    \/ CheckFlags
    \/ SelectBackground
    \/ Rasterize
    \/ StartComponent
    \/ QuadAtOrigin

SpecQuad == InitQuad /\ [][NextQuad]_vars

\* --------------------------------------- the search under two values of shiftN
MaxShift == 4

InitShift ==
    \E s \in Settings, im \in Images, a \in 1..MaxShift, b \in 1..MaxShift :
        /\ a < b
        /\ StartWith(s[1], s[2], s[3], s[4], im, [NoProbe EXCEPT !.a = a, !.b = b])

\* the search of the component just flood-filled, with shiftN = a and with
\* shiftN = b
CompareShifts ==
    /\ pc = "search"
    /\ probe' = [probe EXCEPT !.outA = search(base, bbox, probe.a),
                              !.outB = search(base, bbox, probe.b)]
    /\ pc' = "compared"
    /\ UNCHANGED <<pxSize, toolDiameter, n, background, img, base, curX, curY, bbox,
                   best, shiftI, shiftJ, res, trial, oob, found, won>>

NextShift ==
    \/ CheckFlags
    \/ SelectBackground
    \/ Rasterize
    \/ ScanSkip
    \/ StartComponent
    \/ CompareShifts

SpecShift == InitShift /\ [][NextShift]_vars

\* -------------------------------------------------------------- the claims
Range(seq) == {seq[k] : k \in DOMAIN seq}

\* C1 (as claimed): when a list of placements is about to be appended to the
\* result, every cell whose centre lies within toolDiameter / 2 of the centre
\* of one of its placements carries the label of the component being searched.
C1_Containment ==
    ValidFlags /\ pc = "append" =>
        \A k \in DOMAIN best : \A c \in Cells :
            CellWithin(c, best[k], toolDiameter \div 2) => base.Pix[c] = InComponent

\* C2 (as claimed): in the final result any two distinct placements have
\* centres at distance at least toolDiameter.
C2_Disjointness ==
    ValidFlags /\ pc = "done" =>
        \A k \in DOMAIN res : \A m \in DOMAIN res :
            k < m => ~Closer(res[k], res[m], toolDiameter)

\* C3 (as claimed): when the component loop has finished, every cell that was
\* 255 after rasterization is 254.
C3_Conservation ==
    ValidFlags /\ pc = "done" =>
        \A c \in Cells : Orig.Pix[c] = Foreground => base.Pix[c] = Claimed

\* C4 (as claimed): a run with a non-positive pixel size or tool diameter, with
\* n = 0 or with an unknown background colour never gets past the checks of
\* its flags: it builds no grid and ends in the fatal error.
C4_RejectedUpFront ==
    ~ValidFlags => pc \in {"flags", "colour", "fatal"}

\* C7 (as claimed): no call of checkCircle reads a cell outside the row it
\* scans or outside the pixel buffer.
C7_ReadsInsideGrid == ValidFlags => ~oob

\* the cells main started a flood fill from, as indices of Pix
FoundCells == [k \in DOMAIN found |-> found[k][2] * base.Dx + found[k][1]]

\* the first cell, in the order of key, of every component of the rasterized image
FirstCells(key(_)) ==
    {k \in Cells : Orig.Pix[k] = Foreground
                   /\ \A m \in ComponentOf(Orig, k) : key(k) <= key(m)}

RECURSIVE Flat(_)
Flat(lists) == IF lists = <<>> THEN <<>> ELSE Head(lists) \o Flat(Tail(lists))

\* C8 (as claimed): the components are flood-filled in the row-major order of
\* their first cells: at the end of a run the start cells are the row-major
\* first cells of the components, in increasing row-major order, and the
\* result is the concatenation of their lists in that order.
C8_RowMajorDiscovery ==
    ValidFlags /\ pc = "done" =>
        /\ Range(FoundCells) = FirstCells(RowKey)
        /\ \A k \in DOMAIN found : \A m \in DOMAIN found :
               k < m => RowKey(FoundCells[k]) < RowKey(FoundCells[m])
        /\ res = Flat(won)

\* C8 (amended): the scan is column-major.  Whenever main is between two
\* components, is about to append or is done, the cells it started a flood
\* fill from are exactly the column-major first cells of the components that
\* begin before the scan position (at it, when the component there has just
\* been searched), in increasing column-major order, and the result is the
\* concatenation, in that order, of the lists appended for them.
C8_ColumnMajorDiscovery ==
    pc \in {"scan", "append", "done"} =>
        LET here == curX * base.Dy + curY
            begun == {k \in FirstCells(ColumnKey) :
                        \/ ColumnKey(k) < here
                        \/ pc = "append" /\ ColumnKey(k) = here}
        IN  /\ Range(FoundCells) = begun
            /\ \A k \in DOMAIN found : \A m \in DOMAIN found :
                   k < m => ColumnKey(FoundCells[k]) < ColumnKey(FoundCells[m])
            /\ Len(won) = Len(found) - (IF pc = "append" THEN 1 ELSE 0)
            /\ res = Flat(won)

\* C8 witness: a finished run with two components whose row-major and
\* column-major orders differ and with placements for both
C8_Witness ==
    /\ pc = "done" /\ Len(found) = 2
    /\ RowKey(FoundCells[2]) < RowKey(FoundCells[1])
    /\ won[1] # <<>> /\ won[2] # <<>> /\ won[1] # won[2]

\* C9: a step changes the label of a cell only from 255 to 1 or from 1 to 254,
\* and after a step that changed base every cell of label 1 belongs to the
\* component of the cell the search in progress started from.
C9_MonotonicLabels ==
    [][pc # "raster" /\ base' # base =>
          \A c \in Cells :
              /\ base'.Pix[c] # base.Pix[c] =>
                    \/ base.Pix[c] = Foreground /\ base'.Pix[c] = InComponent
                    \/ base.Pix[c] = InComponent /\ base'.Pix[c] = Claimed
              /\ base'.Pix[c] = InComponent =>
                    /\ pc' = "search"
                    /\ c \in ComponentOf(Orig, curY' * base.Dx + curX')]_vars

\* C9 witness: a finished run in which cells went through both changes, beside
\* background cells, in two components
C9_Witness ==
    /\ pc = "done" /\ Len(found) >= 2
    /\ \E c \in Cells : base.Pix[c] = Claimed
    /\ \E c \in Cells : base.Pix[c] = Background

\* the 2 * shiftN^2 lists of one search in the order main computes them:
\* i outside, j inside, fillTriangle before fillQuad
TrialList(k) ==
    LET shift == toolDiameter \div shiftN
        ox == (k \div (2 * shiftN)) * shift
        oy == ((k \div 2) % shiftN) * shift
    IN  IF k % 2 = 0
        THEN fillTriangle(base, InComponent, bbox, ox, oy).centers
        ELSE fillQuad(base, InComponent, bbox, ox, oy).centers

\* C10: the list about to be appended is at least as long as every trial list,
\* and it is the first trial list of its length.
C10_BestOfTrials ==
    pc = "append" =>
        LET top == {k \in 0..(2 * shiftN * shiftN - 1) : Len(TrialList(k)) >= Len(best)}
        IN  /\ \A m \in top : Len(TrialList(m)) = Len(best)
            /\ \E k \in top : (\A m \in top : k <= m) /\ TrialList(k) = best

\* C10 witness: a search ends with a non-empty best list, and its last trial
\* list is as long but another list
C10_Witness ==
    /\ pc = "append" /\ best # <<>>
    /\ Len(trial.quad) = Len(best) /\ trial.quad # best

\* C5 (as claimed): on a W by H grid without background, with pixel size 1,
\* n = 1 and a tool diameter of d pixels, d dividing W and H, fillQuad at
\* offset (0, 0) returns (W / d) * (H / d) placements.
FullGrid(d) ==
    /\ pc = "probed" /\ pxSize = Mm /\ n = 1 /\ toolDiameter = d * Mm
    /\ \A c \in Cells : Orig.Pix[c] = Foreground
    /\ base.Dx % d = 0 /\ base.Dy % d = 0

C5_FullSquareAsClaimed ==
    \A d \in 1..MaxFull :
        FullGrid(d) => Len(trial.quad) = (base.Dx \div d) * (base.Dy \div d)

\* C5 (amended): it returns (W / d - 1) * (H / d - 1) placements, the lattice
\* points (i * d, j * d) with 0 < i * d < W and 0 < j * d < H.
C5_FullSquare ==
    \A d \in 1..MaxFull :
        FullGrid(d) =>
            /\ Len(trial.quad) = (base.Dx \div d - 1) * (base.Dy \div d - 1)
            /\ \A k \in DOMAIN trial.quad :
                   /\ trial.quad[k].X[2] = 0
                   /\ trial.quad[k].X[1] % toolDiameter = 0
                   /\ trial.quad[k].Y % toolDiameter = 0

\* C5 witness: a 6 by 4 grid and d = 2, two placements whose fit was read
\* from the grid
C5_Witness ==
    /\ FullGrid(2) /\ base.Dx = 6 /\ base.Dy = 4
    /\ Len(trial.quad) = 2

====
